---- MODULE Spec2Model ----
(***************************************************************************)
(* Model of backend/app/models/schemas.py: the pydantic (v2) request and    *)
(* response schemas of the Mini_RAG service.                                *)
(*                                                                          *)
(* A raw (JSON-decoded) value and a validated field value are both tagged   *)
(* records of one shape, so that values of different Python types can sit   *)
(* in one set.  A string is a sequence of one-character strings, so that    *)
(* min_length, the role pattern and the lax str -> number parsing are       *)
(* computed on the characters.  A float is kept as twice its value          *)
(* (n = 7 is 3.5), which is enough to tell integral floats from others.     *)
(***************************************************************************)
EXTENDS Integers, Sequences, FiniteSets, TLC

VARIABLES pc, schema, raw, clock, result, encoded, revalidated,
          heap, retrievedRef, rerankedRef, writes, lastWrite

vars == <<pc, schema, raw, clock, result, encoded, revalidated,
          heap, retrievedRef, rerankedRef, writes, lastWrite>>

valVars == <<pc, schema, raw, clock, result, encoded, revalidated>>
heapVars == <<heap, retrievedRef, rerankedRef, writes, lastWrite>>

-----------------------------------------------------------------------------
(* Bounds *)

\* how many fields of a well-formed input are replaced at once
MaxPerturb == 2
\* how far the wall clock advances
MaxClock == 1
\* how many mutations of constructed records are followed
MaxWrites == 2

-----------------------------------------------------------------------------
(* Values *)

NoDict == [f \in {} |-> 0]

V(k, s, n, items, d) == [kind |-> k, s |-> s, n |-> n, items |-> items, d |-> d]

Absent == V("absent", <<>>, 0, <<>>, NoDict)
Null == V("null", <<>>, 0, <<>>, NoDict)
StrV(s) == V("str", s, 0, <<>>, NoDict)
IntV(n) == V("int", <<>>, n, <<>>, NoDict)
FltV(twice) == V("float", <<>>, twice, <<>>, NoDict)
BoolV(b) == V("bool", <<>>, IF b THEN 1 ELSE 0, <<>>, NoDict)
ListV(items) == V("list", <<>>, 0, items, NoDict)
DictV(d) == V("dict", <<>>, 0, <<>>, d)
\* a model instance held by value (the class name is kept as a one-element sequence)
ModelVal(name, d) == V("model", <<name>>, 0, <<>>, d)
\* a reference to the model instance at address id of the heap
Ref(name, id) == V("ref", <<name>>, id, <<>>, NoDict)

\* string literals, as character sequences
s_empty == <<>>
s_user == <<"u", "s", "e", "r">>
s_assistant == <<"a", "s", "s", "i", "s", "t", "a", "n", "t">>
s_User == <<"U", "s", "e", "r">>
s_user_sp == <<" ", "u", "s", "e", "r">>
s_user_nl == <<"u", "s", "e", "r", "\n">>
s_moderator == <<"m", "o", "d", "e", "r", "a", "t", "o", "r">>
s_users == <<"u", "s", "e", "r", "s">>
s_x == <<"x">>
s_hi == <<"h", "i">>
s_3 == <<"3">>
s_12 == <<"1", "2">>
s_3p5 == <<"3", ".", "5">>
s_true == <<"t", "r", "u", "e">>
s_a == <<"a">>
s_b == <<"b">>

-----------------------------------------------------------------------------
(* Schemas *)

Fld(name, type, sub, nullable, required, dflt, minlen, pattern) ==
    [name |-> name, type |-> type, sub |-> sub, nullable |-> nullable,
     required |-> required, dflt |-> dflt, minlen |-> minlen, pattern |-> pattern]

\* a required field of a plain type
Req(name, type) == Fld(name, type, "", FALSE, TRUE, "", 0, FALSE)
\* Optional[str] = None
OptStr(name) == Fld(name, "str", "", TRUE, FALSE, "none", 0, FALSE)
\* List[str] = Field(default_factory=list)
StrList(name) == Fld(name, "list_str", "", FALSE, FALSE, "list", 0, FALSE)

TextProcessRequest ==
    << Fld("text", "str", "", FALSE, TRUE, "", 1, FALSE),
       OptStr("title") >>

DocumentUploadResponse ==
    << Req("success", "bool"),
       Req("document_id", "str"),
       Req("title", "str"),
       Req("chunks_created", "int"),
       Fld("links_extracted", "int", "", FALSE, FALSE, "zero", 0, FALSE),
       Fld("images_extracted", "int", "", FALSE, FALSE, "zero", 0, FALSE),
       Req("processing_time_ms", "float") >>

ChatMessage ==
    << Fld("role", "str", "", FALSE, TRUE, "", 0, TRUE),
       Req("content", "str") >>

QueryRequest ==
    << Fld("query", "str", "", FALSE, TRUE, "", 1, FALSE),
       OptStr("session_id"),
       Fld("chat_history", "list_model", "ChatMessage", TRUE, FALSE, "list", 0, FALSE) >>

SourceReference ==
    << Req("id", "int"),
       Req("text", "str"),
       Req("document", "str"),
       StrList("links"),
       StrList("images"),
       Req("score", "float"),
       OptStr("chunk_id"),
       OptStr("section") >>

TimingInfo ==
    << Req("retrieval_ms", "float"),
       Req("rerank_ms", "float"),
       Req("llm_ms", "float"),
       Req("total_ms", "float") >>

TokenUsage ==
    << Req("prompt_tokens", "int"),
       Req("completion_tokens", "int"),
       Req("total_tokens", "int"),
       Req("estimated_cost_usd", "float") >>

QueryResponse ==
    << Req("answer", "str"),
       Fld("sources", "list_model", "SourceReference", FALSE, FALSE, "list", 0, FALSE),
       Req("has_context", "bool"),
       OptStr("general_answer"),
       Fld("timing", "model", "TimingInfo", FALSE, TRUE, "", 0, FALSE),
       Fld("token_usage", "model", "TokenUsage", TRUE, FALSE, "none", 0, FALSE),
       OptStr("session_id") >>

ChunkMetadata ==
    << Req("source", "str"),
       Req("title", "str"),
       OptStr("section"),
       Req("chunk_id", "str"),
       StrList("links"),
       StrList("images"),
       Fld("created_at", "str", "", FALSE, FALSE, "now", 0, FALSE) >>

RetrievedChunk ==
    << Req("chunk_id", "str"),
       Req("text", "str"),
       Req("score", "float"),
       Fld("metadata", "model", "ChunkMetadata", FALSE, TRUE, "", 0, FALSE) >>

RerankedChunk ==
    << Req("chunk_id", "str"),
       Req("text", "str"),
       Req("score", "float"),
       Req("original_score", "float"),
       Fld("metadata", "model", "ChunkMetadata", FALSE, TRUE, "", 0, FALSE) >>

HealthResponse ==
    << Req("status", "str"),
       Req("qdrant_connected", "bool"),
       Req("openai_configured", "bool"),
       Req("cohere_configured", "bool"),
       Fld("timestamp", "str", "", FALSE, FALSE, "now", 0, FALSE) >>

SchemaNames ==
    {"TextProcessRequest", "DocumentUploadResponse", "ChatMessage", "QueryRequest",
     "SourceReference", "TimingInfo", "TokenUsage", "QueryResponse",
     "ChunkMetadata", "RetrievedChunk", "RerankedChunk", "HealthResponse"}

Fields(name) ==
    CASE name = "TextProcessRequest" -> TextProcessRequest
      [] name = "DocumentUploadResponse" -> DocumentUploadResponse
      [] name = "ChatMessage" -> ChatMessage
      [] name = "QueryRequest" -> QueryRequest
      [] name = "SourceReference" -> SourceReference
      [] name = "TimingInfo" -> TimingInfo
      [] name = "TokenUsage" -> TokenUsage
      [] name = "QueryResponse" -> QueryResponse
      [] name = "ChunkMetadata" -> ChunkMetadata
      [] name = "RetrievedChunk" -> RetrievedChunk
      [] name = "RerankedChunk" -> RerankedChunk
      [] name = "HealthResponse" -> HealthResponse

FieldSet(name) == {Fields(name)[i] : i \in DOMAIN Fields(name)}
FieldNames(name) == {f.name : f \in FieldSet(name)}
RequiredNames(name) == {f.name : f \in {g \in FieldSet(name) : g.required}}

-----------------------------------------------------------------------------
(* Field validators (pydantic v2, lax mode: no model_config sets strict) *)

Ok(v) == [errs |-> {}, val |-> v]
Err(type) == [errs |-> {[loc |-> <<>>, type |-> type]}, val |-> Null]

\* errors of a nested value, reported under the path element p
Under(p, errs) == {[loc |-> <<p>> \o e.loc, type |-> e.type] : e \in errs}

IdxStr(i) == <<"0", "1", "2", "3", "4", "5", "6", "7", "8", "9">>[i]

Digits == {"0", "1", "2", "3", "4", "5", "6", "7", "8", "9"}

DigitVal(c) ==
    CASE c = "0" -> 0 [] c = "1" -> 1 [] c = "2" -> 2 [] c = "3" -> 3
      [] c = "4" -> 4 [] c = "5" -> 5 [] c = "6" -> 6 [] c = "7" -> 7
      [] c = "8" -> 8 [] c = "9" -> 9

IsDigits(s) == Len(s) > 0 /\ \A i \in 1..Len(s) : s[i] \in Digits

RECURSIVE ParseNat(_)
ParseNat(s) ==
    IF Len(s) = 0 THEN 0
    ELSE 10 * ParseNat(SubSeq(s, 1, Len(s) - 1)) + DigitVal(s[Len(s)])

\* decimal literals "d+" and "d+.0" / "d+.5" (the ones a doubled integer holds)
IsDecimal(s) ==
    \/ IsDigits(s)
    \/ /\ Len(s) >= 3
       /\ s[Len(s) - 1] = "."
       /\ s[Len(s)] \in {"0", "5"}
       /\ IsDigits(SubSeq(s, 1, Len(s) - 2))

ParseTwice(s) ==
    IF IsDigits(s) THEN 2 * ParseNat(s)
    ELSE 2 * ParseNat(SubSeq(s, 1, Len(s) - 2)) + (IF s[Len(s)] = "5" THEN 1 ELSE 0)

TrueStrs == {<<"1">>, <<"o", "n">>, <<"t">>, <<"t", "r", "u", "e">>, <<"y">>, <<"y", "e", "s">>}
FalseStrs == {<<"0">>, <<"o", "f", "f">>, <<"f">>, <<"f", "a", "l", "s", "e">>, <<"n">>, <<"n", "o">>}

\* pattern="^(user|assistant)$": the regex engine of pydantic-core anchors $
\* at the very end of the text
RoleAlternatives == {s_user, s_assistant}

\* mutation of PatternMatches: $ as in Python's re, which also matches before
\* a newline that ends the text
PatternMatchesBeforeNewline(s) ==
    \/ s \in RoleAlternatives
    \/ /\ Len(s) > 0
       /\ s[Len(s)] = "\n"
       /\ SubSeq(s, 1, Len(s) - 1) \in RoleAlternatives

PatternMatches(s) == s \in RoleAlternatives

\* mutation of ValidateStr: min_length is not applied
ValidateStrNoMinLength(f, v) ==
    IF v.kind # "str" THEN Err("string_type")
    ELSE IF f.pattern /\ ~PatternMatches(v.s) THEN Err("string_pattern_mismatch")
    ELSE Ok(StrV(v.s))

ValidateStr(f, v) ==
    IF v.kind # "str" THEN Err("string_type")
    ELSE IF Len(v.s) < f.minlen THEN Err("string_too_short")
    ELSE IF f.pattern /\ ~PatternMatches(v.s) THEN Err("string_pattern_mismatch")
    ELSE Ok(StrV(v.s))

ValidateInt(v) ==
    CASE v.kind = "int" -> Ok(IntV(v.n))
      [] v.kind = "bool" -> Ok(IntV(v.n))
      [] v.kind = "float" -> IF v.n % 2 = 0 THEN Ok(IntV(v.n \div 2)) ELSE Err("int_from_float")
      [] v.kind = "str" -> IF IsDigits(v.s) THEN Ok(IntV(ParseNat(v.s))) ELSE Err("int_parsing")
      [] OTHER -> Err("int_type")

ValidateFloat(v) ==
    CASE v.kind = "float" -> Ok(FltV(v.n))
      [] v.kind = "int" -> Ok(FltV(2 * v.n))
      [] v.kind = "bool" -> Ok(FltV(2 * v.n))
      [] v.kind = "str" -> IF IsDecimal(v.s) THEN Ok(FltV(ParseTwice(v.s))) ELSE Err("float_parsing")
      [] OTHER -> Err("float_type")

ValidateBool(v) ==
    CASE v.kind = "bool" -> Ok(BoolV(v.n = 1))
      [] v.kind = "int" -> IF v.n \in {0, 1} THEN Ok(BoolV(v.n = 1)) ELSE Err("bool_parsing")
      [] v.kind = "float" -> IF v.n \in {0, 2} THEN Ok(BoolV(v.n = 2)) ELSE Err("bool_parsing")
      [] v.kind = "str" -> IF v.s \in TrueStrs THEN Ok(BoolV(TRUE))
                           ELSE IF v.s \in FalseStrs THEN Ok(BoolV(FALSE))
                           ELSE Err("bool_parsing")
      [] OTHER -> Err("bool_type")

PlainStr == Req("", "str")

ValidateStrList(v) ==
    IF v.kind # "list" THEN Err("list_type")
    ELSE LET r == [i \in DOMAIN v.items |-> ValidateStr(PlainStr, v.items[i])]
             errs == UNION {Under(IdxStr(i), r[i].errs) : i \in DOMAIN v.items}
         IN  IF errs = {} THEN Ok(ListV([i \in DOMAIN v.items |-> r[i].val]))
             ELSE [errs |-> errs, val |-> Null]

\* utcnow().isoformat(): the clock reading written out in characters
IsoFormat(t) == <<"T", IdxStr((t \div 10) + 1), IdxStr((t % 10) + 1)>>

\* mutation of DefaultValue: a sequence field left out is None
DefaultValueNoFactory(f, now) ==
    CASE f.dflt = "none" -> Null
      [] f.dflt = "zero" -> IntV(0)
      [] f.dflt = "list" -> Null
      [] f.dflt = "now" -> StrV(IsoFormat(now))

DefaultValue(f, now) ==
    CASE f.dflt = "none" -> Null
      [] f.dflt = "zero" -> IntV(0)
      [] f.dflt = "list" -> ListV(<<>>)
      [] f.dflt = "now" -> StrV(IsoFormat(now))

RECURSIVE ValidateModel(_, _, _)
RECURSIVE ValidateField(_, _, _)

ValidateModelList(f, v, now) ==
    IF v.kind # "list" THEN Err("list_type")
    ELSE LET r == [i \in DOMAIN v.items |-> ValidateModel(f.sub, v.items[i], now)]
             errs == UNION {Under(IdxStr(i), r[i].errs) : i \in DOMAIN v.items}
         IN  IF errs = {} THEN Ok(ListV([i \in DOMAIN v.items |-> r[i].val]))
             ELSE [errs |-> errs, val |-> Null]

\* mutation of AcceptsNull: None passes for every annotation
AcceptsNullAnywhere(f, v) == v.kind = "null"

\* None is a value of the field only under an Optional[...] annotation
AcceptsNull(f, v) == v.kind = "null" /\ f.nullable

\* one field of a model: v is the supplied value, Absent if the key is missing
ValidateField(f, v, now) ==
    IF v.kind = "absent"
    THEN IF f.required THEN Err("missing") ELSE Ok(DefaultValue(f, now))
    ELSE IF AcceptsNull(f, v) THEN Ok(Null)
    ELSE CASE f.type = "str" -> ValidateStr(f, v)
           [] f.type = "int" -> ValidateInt(v)
           [] f.type = "float" -> ValidateFloat(v)
           [] f.type = "bool" -> ValidateBool(v)
           [] f.type = "list_str" -> ValidateStrList(v)
           [] f.type = "list_model" -> ValidateModelList(f, v, now)
           [] f.type = "model" -> ValidateModel(f.sub, v, now)

Supplied(v, name) == IF name \in DOMAIN v.d THEN v.d[name] ELSE Absent

\* mutation of CollectErrors: validation stops at the first field, in
\* declaration order, that fails
CollectFirstError(name, r) ==
    LET bad == {i \in DOMAIN Fields(name) : r[Fields(name)[i].name].errs # {}}
    IN  IF bad = {} THEN {}
        ELSE LET i == CHOOSE j \in bad : \A k \in bad : j <= k
                 n == Fields(name)[i].name
             IN  Under(n, r[n].errs)

\* the line errors of all the fields of the model, r[n] being the outcome of
\* field n
CollectErrors(name, r) == UNION {Under(n, r[n].errs) : n \in FieldNames(name)}

\* BaseModel validation: an instance of the class is taken as it is
\* (revalidate_instances is 'never'); of a mapping every field is validated and
\* the errors of all fields are collected
ValidateModel(name, v, now) ==
    IF v.kind = "ref" /\ v.s = <<name>> THEN Ok(v)
    ELSE IF v.kind # "dict" THEN Err("model_type")
    ELSE LET r == [n \in FieldNames(name) |->
                     ValidateField(CHOOSE f \in FieldSet(name) : f.name = n,
                                   Supplied(v, n), now)]
             errs == CollectErrors(name, r)
         IN  IF errs = {} THEN Ok(ModelVal(name, [n \in FieldNames(name) |-> r[n].val]))
             ELSE [errs |-> errs, val |-> Null]

Validate(name, v, now) == ValidateModel(name, v, now)

ErrorFields(r) == {e.loc[1] : e \in {x \in r.errs : Len(x.loc) > 0}}
ErrorPaths(r) == {e.loc : e \in r.errs}

\* mutation of Encode: fields that are None are left out of the mapping
RECURSIVE EncodeExcludeNone(_)
EncodeExcludeNone(v) ==
    CASE v.kind = "model" ->
            DictV([n \in {m \in DOMAIN v.d : v.d[m].kind # "null"} |-> EncodeExcludeNone(v.d[n])])
      [] v.kind = "list" -> ListV([i \in DOMAIN v.items |-> EncodeExcludeNone(v.items[i])])
      [] OTHER -> v

\* model_dump(): nested models become mappings, everything else is kept
RECURSIVE Encode(_)
Encode(v) ==
    CASE v.kind = "model" -> DictV([n \in DOMAIN v.d |-> Encode(v.d[n])])
      [] v.kind = "list" -> ListV([i \in DOMAIN v.items |-> Encode(v.items[i])])
      [] OTHER -> v

-----------------------------------------------------------------------------
(* Inputs: a well-formed mapping per schema, with up to MaxPerturb of its   *)
(* fields replaced by other JSON values or left out                         *)

Msg(role, content) == DictV([role |-> StrV(role), content |-> StrV(content)])

BaseTiming ==
    DictV([retrieval_ms |-> FltV(3), rerank_ms |-> FltV(2), llm_ms |-> IntV(4),
           total_ms |-> FltV(13)])

Tokens(p, c, t) ==
    DictV([prompt_tokens |-> IntV(p), completion_tokens |-> IntV(c),
           total_tokens |-> IntV(t), estimated_cost_usd |-> FltV(1)])

Source(id, links) ==
    DictV([id |-> id, text |-> StrV(s_hi), document |-> StrV(s_a),
           links |-> links, score |-> FltV(1)])

Meta(links) ==
    DictV([source |-> StrV(s_a), title |-> StrV(s_b), chunk_id |-> StrV(s_x),
           links |-> links])

StampedMeta == DictV(("created_at" :> StrV(s_hi)) @@ Meta(ListV(<<>>)).d)

Links_ab == ListV(<<StrV(s_a), StrV(s_b)>>)
Links_ba == ListV(<<StrV(s_b), StrV(s_a)>>)

BaseRaw(name) ==
    CASE name = "TextProcessRequest" -> DictV([text |-> StrV(s_hi), title |-> StrV(s_a)])
      [] name = "DocumentUploadResponse" ->
            DictV([success |-> BoolV(TRUE), document_id |-> StrV(s_x), title |-> StrV(s_a),
                   chunks_created |-> IntV(2), links_extracted |-> IntV(1),
                   processing_time_ms |-> FltV(5)])
      [] name = "ChatMessage" -> Msg(s_user, s_hi)
      [] name = "QueryRequest" -> DictV([query |-> StrV(s_x)])
      [] name = "SourceReference" -> Source(IntV(1), Links_ab)
      [] name = "TimingInfo" -> BaseTiming
      [] name = "TokenUsage" -> Tokens(1, 1, 2)
      [] name = "QueryResponse" ->
            DictV([answer |-> StrV(s_hi), has_context |-> BoolV(TRUE),
                   sources |-> ListV(<<Source(IntV(1), Links_ab)>>),
                   timing |-> BaseTiming])
      [] name = "ChunkMetadata" -> Meta(Links_ab)
      [] name = "RetrievedChunk" ->
            DictV([chunk_id |-> StrV(s_x), text |-> StrV(s_hi), score |-> FltV(1),
                   metadata |-> Meta(Links_ab)])
      [] name = "RerankedChunk" ->
            DictV([chunk_id |-> StrV(s_x), text |-> StrV(s_hi), score |-> FltV(3),
                   original_score |-> FltV(1), metadata |-> Meta(Links_ab)])
      [] name = "HealthResponse" ->
            DictV([status |-> StrV(s_a), qdrant_connected |-> BoolV(TRUE),
                   openai_configured |-> BoolV(FALSE), cohere_configured |-> BoolV(TRUE)])

\* values tried in every field, whatever its declared type
GenericRaw ==
    {Absent, Null, StrV(s_3), StrV(s_x), IntV(3), BoolV(TRUE), ListV(<<>>)}

RoleRaw ==
    {StrV(s_user), StrV(s_assistant), StrV(s_User), StrV(s_user_sp), StrV(s_user_nl),
     StrV(s_moderator), StrV(s_users)}

HistoryRaw ==
    {ListV(<<Msg(s_user, s_hi)>>),
     ListV(<<Msg(s_user, s_hi), Msg(s_assistant, s_x)>>),
     ListV(<<Msg(s_assistant, s_x), Msg(s_user, s_hi)>>),
     ListV(<<Msg(s_moderator, s_hi)>>),
     ListV(<<Msg(s_user_nl, s_hi)>>),
     ListV(<<Msg(s_user, s_hi), DictV([role |-> StrV(s_User)])>>)}

SourcesRaw ==
    {ListV(<<Source(IntV(1), Links_ab), Source(IntV(2), Links_ba)>>),
     ListV(<<Source(IntV(2), Links_ba), Source(IntV(1), Links_ab)>>),
     ListV(<<Source(StrV(s_3), ListV(<<>>))>>),
     ListV(<<Source(StrV(s_x), ListV(<<IntV(3)>>))>>)}

SpecificRaw(f) ==
    CASE f.pattern -> RoleRaw
      [] f.type = "str" /\ ~f.pattern -> {StrV(s_hi), StrV(s_empty)}
      [] f.type = "int" -> {IntV(0), StrV(s_12), FltV(4), FltV(7)}
      [] f.type = "float" -> {FltV(7), StrV(s_3p5)}
      [] f.type = "bool" -> {BoolV(FALSE), StrV(s_true), IntV(1)}
      [] f.type = "list_str" -> {Links_ab, Links_ba, ListV(<<StrV(s_a), IntV(3)>>)}
      [] f.type = "list_model" /\ f.sub = "ChatMessage" -> HistoryRaw
      [] f.type = "list_model" /\ f.sub = "SourceReference" -> SourcesRaw
      [] f.type = "model" /\ f.sub = "TimingInfo" ->
            {BaseTiming, DictV([total_ms |-> StrV(s_3)])}
      [] f.type = "model" /\ f.sub = "TokenUsage" ->
            {Tokens(1, 1, 2), Tokens(1, 2, 2), Tokens(0, 0, 1)}
      [] f.type = "model" /\ f.sub = "ChunkMetadata" ->
            {Meta(Links_ab), StampedMeta, Meta(IntV(3))}

Candidates(f) == GenericRaw \cup SpecificRaw(f)

With(d, n, v) == IF v.kind = "absent" THEN d ELSE (n :> v) @@ d

\* the mappings over the fields i.. of the schema in which at most budget
\* fields differ from the well-formed input
RECURSIVE Variants(_, _, _)
Variants(name, i, budget) ==
    IF i > Len(Fields(name)) THEN {NoDict}
    ELSE LET f == Fields(name)[i]
             base == Supplied(BaseRaw(name), f.name)
             kept == {With(d, f.name, base) : d \in Variants(name, i + 1, budget)}
             changed == IF budget = 0 THEN {}
                        ELSE UNION {{With(d, f.name, c) : d \in Variants(name, i + 1, budget - 1)} :
                                       c \in Candidates(f) \ {base}}
         IN  kept \cup changed

Inputs(name) == {DictV(d) : d \in Variants(name, 1, MaxPerturb)}

-----------------------------------------------------------------------------
(* The request cycle: an input is validated, the record is serialized and   *)
(* the serialized form is validated again; the clock runs meanwhile         *)

NoResult == [errs |-> {}, val |-> Absent]

NoHeap == [o \in {} |-> 0]

ValInit ==
    /\ pc = "input"
    /\ schema \in SchemaNames
    /\ raw \in Inputs(schema)
    /\ clock = 0
    /\ result = NoResult
    /\ encoded = Absent
    /\ revalidated = NoResult

Tick ==
    /\ clock < MaxClock
    /\ clock' = clock + 1
    /\ UNCHANGED <<pc, schema, raw, result, encoded, revalidated>>

DoValidate ==
    /\ pc = "input"
    /\ result' = Validate(schema, raw, clock)
    /\ pc' = IF result'.errs = {} THEN "validated" ELSE "rejected"
    /\ UNCHANGED <<schema, raw, clock, encoded, revalidated>>

DoEncode ==
    /\ pc = "validated"
    /\ encoded' = Encode(result.val)
    /\ pc' = "encoded"
    /\ UNCHANGED <<schema, raw, clock, result, revalidated>>

DoRevalidate ==
    /\ pc = "encoded"
    /\ revalidated' = Validate(schema, encoded, clock)
    /\ pc' = "done"
    /\ UNCHANGED <<schema, raw, clock, result, encoded>>

HeapIdle ==
    /\ heap = NoHeap
    /\ retrievedRef = 0
    /\ rerankedRef = 0
    /\ writes = 0
    /\ lastWrite = "none"

Init == ValInit /\ HeapIdle

-----------------------------------------------------------------------------
(* Records as Python objects: the retrieval chain ChunkMetadata ->           *)
(* RetrievedChunk -> RerankedChunk is constructed and then written to        *)

MetaPayloads == {Meta(Links_ab), Meta(ListV(<<>>)), StampedMeta}

Scores == {FltV(3), IntV(2)}

WrittenValues == {StrV(s_hi), IntV(3)}

WrittenFields == {"score", "text", "title", "section", "links", "images"}

HeapInit ==
    /\ pc = "objects"
    /\ schema = "ChunkMetadata"
    /\ raw \in MetaPayloads
    /\ clock = 0
    /\ result = NoResult
    /\ encoded = Absent
    /\ revalidated = NoResult
    /\ HeapIdle

Alloc(h, id, obj) == (id :> obj) @@ h

ConstructMetadata ==
    /\ pc = "objects"
    /\ heap = NoHeap
    /\ LET r == Validate("ChunkMetadata", raw, clock)
       IN  /\ r.errs = {}
           /\ heap' = Alloc(heap, 1, r.val)
    /\ UNCHANGED <<retrievedRef, rerankedRef, writes, lastWrite>>

ConstructRetrieved ==
    /\ 1 \in DOMAIN heap
    /\ retrievedRef = 0
    /\ \E score \in Scores :
         LET r == Validate("RetrievedChunk",
                           DictV([chunk_id |-> heap[1].d.chunk_id, text |-> StrV(s_hi),
                                  score |-> score, metadata |-> Ref("ChunkMetadata", 1)]),
                           clock)
         IN  /\ r.errs = {}
             /\ heap' = Alloc(heap, 2, r.val)
    /\ retrievedRef' = 2
    /\ UNCHANGED <<rerankedRef, writes, lastWrite>>

\* the field holds either a reference to an instance or an instance by value
Deref(h, v) == IF v.kind = "ref" THEN h[v.n] ELSE v

ConstructReranked ==
    /\ retrievedRef # 0
    /\ rerankedRef = 0
    /\ \E score \in Scores, how \in {"instance", "dump"} :
         LET held == heap[retrievedRef].d.metadata
             r == Validate("RerankedChunk",
                           DictV([chunk_id |-> heap[retrievedRef].d.chunk_id,
                                  text |-> heap[retrievedRef].d.text,
                                  score |-> score,
                                  original_score |-> heap[retrievedRef].d.score,
                                  metadata |-> IF how = "instance" THEN held
                                               ELSE Encode(Deref(heap, held))]),
                           clock)
         IN  /\ r.errs = {}
             /\ heap' = Alloc(heap, 3, r.val)
    /\ rerankedRef' = 3
    /\ UNCHANGED <<retrievedRef, writes, lastWrite>>

Paths == {"retrieved", "reranked", "retrieved.metadata", "reranked.metadata"}

Root(path) == IF path \in {"retrieved", "retrieved.metadata"} THEN retrievedRef ELSE rerankedRef

IsNested(path) == path \in {"retrieved.metadata", "reranked.metadata"}

\* the record reached through the path
Target(h, path) ==
    IF IsNested(path) THEN Deref(h, h[Root(path)].d.metadata) ELSE h[Root(path)]

\* the heap after the record reached through the path is replaced by obj
Store(h, path, obj) ==
    IF ~IsNested(path) THEN [h EXCEPT ![Root(path)] = obj]
    ELSE LET held == h[Root(path)].d.metadata
         IN  IF held.kind = "ref" THEN [h EXCEPT ![held.n] = obj]
             ELSE [h EXCEPT ![Root(path)].d.metadata = obj]

\* BaseModel.__setattr__: frozen and validate_assignment are off
SetAttr ==
    /\ writes < MaxWrites
    /\ \E path \in Paths :
         /\ Root(path) # 0
         /\ LET obj == Target(heap, path)
            IN  \E n \in DOMAIN obj.d \cap WrittenFields, v \in WrittenValues :
                  /\ obj.d[n].kind \notin {"ref", "model"}
                  /\ heap' = Store(heap, path, [obj EXCEPT !.d[n] = v])
         /\ lastWrite' = path
    /\ writes' = writes + 1
    /\ UNCHANGED <<retrievedRef, rerankedRef>>

\* list.append on a sequence field of the record
AppendItem ==
    /\ writes < MaxWrites
    /\ \E path \in Paths :
         /\ Root(path) # 0
         /\ LET obj == Target(heap, path)
            IN  \E n \in DOMAIN obj.d \cap WrittenFields, v \in WrittenValues :
                  /\ obj.d[n].kind = "list"
                  /\ heap' = Store(heap, path,
                                   [obj EXCEPT !.d[n] = ListV(Append(obj.d[n].items, v))])
         /\ lastWrite' = path
    /\ writes' = writes + 1
    /\ UNCHANGED <<retrievedRef, rerankedRef>>

HeapNext ==
    \/ ConstructMetadata /\ UNCHANGED valVars
    \/ ConstructRetrieved /\ UNCHANGED valVars
    \/ ConstructReranked /\ UNCHANGED valVars
    \/ SetAttr /\ UNCHANGED valVars
    \/ AppendItem /\ UNCHANGED valVars

HeapSpec == HeapInit /\ [][HeapNext]_vars

Next ==
    \/ Tick /\ UNCHANGED heapVars
    \/ DoValidate /\ UNCHANGED heapVars
    \/ DoEncode /\ UNCHANGED heapVars
    \/ DoRevalidate /\ UNCHANGED heapVars

Spec == Init /\ [][Next]_vars

-----------------------------------------------------------------------------
(* Properties *)

Decided == pc # "input"
Accepted == Decided /\ result.errs = {}
Rejected == Decided /\ result.errs # {}

LineError(path, type) == [loc |-> path, type |-> type]

RoleValues == {StrV(s_user), StrV(s_assistant)}

\* the role of every entry of a chat_history that is a list of mappings
HistoryRoles(h) ==
    {Supplied(h.items[i], "role") : i \in {j \in DOMAIN h.items : h.items[j].kind = "dict"}}

\* C1: a ChatMessage is accepted only if its role is exactly "user" or
\* "assistant", and then the record holds the role that was supplied; a role
\* that is any other string is rejected with a pattern violation located at
\* role, and any other role value is rejected with an error located at role.
\* The same holds of the messages of an accepted QueryRequest's chat_history.
C1_RoleIsUserOrAssistant ==
    /\ (Decided /\ schema = "ChatMessage") =>
          LET role == Supplied(raw, "role")
          IN  /\ result.errs = {} => (role \in RoleValues /\ result.val.d.role = role)
              /\ (role.kind = "str" /\ role \notin RoleValues) =>
                    LineError(<<"role">>, "string_pattern_mismatch") \in result.errs
              /\ role \notin RoleValues => "role" \in ErrorFields(result)
    /\ (Accepted /\ schema = "QueryRequest" /\ Supplied(raw, "chat_history").kind = "list") =>
          HistoryRoles(Supplied(raw, "chat_history")) \subseteq RoleValues

C1_Witness ==
    /\ schema = "ChatMessage"
    /\ Supplied(raw, "role") = StrV(s_user_nl)
    /\ Supplied(raw, "content") = StrV(s_hi)
    /\ pc = "rejected"
    /\ result.errs = {LineError(<<"role">>, "string_pattern_mismatch")}

MinLengthField(name) == IF name = "TextProcessRequest" THEN "text" ELSE "query"

\* C2: an empty text (TextProcessRequest) or query (QueryRequest) is rejected
\* with a too-short error located at that field; a string of one character or
\* more in that field never causes an error at it, and the input is accepted
\* when it is all the input supplies.
C2_MinLength ==
    (Decided /\ schema \in {"TextProcessRequest", "QueryRequest"}) =>
        LET n == MinLengthField(schema)
            v == Supplied(raw, n)
        IN  /\ v = StrV(s_empty) => LineError(<<n>>, "string_too_short") \in result.errs
            /\ (v.kind = "str" /\ Len(v.s) >= 1) => n \notin ErrorFields(result)
            /\ (v.kind = "str" /\ Len(v.s) >= 1 /\ DOMAIN raw.d = {n}) => result.errs = {}

C2_Witness ==
    /\ schema = "TextProcessRequest"
    /\ raw = DictV([text |-> StrV(s_empty), title |-> StrV(s_a)])
    /\ pc = "rejected"
    /\ ErrorFields(result) = {"text"}

IsMissing(v) == v.kind \in {"absent", "null"}

ModelFields(name) == {f \in FieldSet(name) : f.type = "model"}

\* C3: whenever a field declared without a default is absent from the input
\* or null, the input is rejected and an error is located at that field,
\* whatever the other fields hold; likewise for the fields of a nested
\* mapping.
C3_RequiredFields ==
    Decided =>
        /\ \A n \in RequiredNames(schema) :
              IsMissing(Supplied(raw, n)) => (Rejected /\ n \in ErrorFields(result))
        /\ \A f \in ModelFields(schema) :
              Supplied(raw, f.name).kind = "dict" =>
                  \A m \in RequiredNames(f.sub) :
                      IsMissing(Supplied(Supplied(raw, f.name), m)) =>
                          <<f.name, m>> \in ErrorPaths(result)

C3_Witness ==
    /\ schema = "SourceReference"
    /\ "id" \notin DOMAIN raw.d
    /\ Supplied(raw, "score") = Null
    /\ pc = "rejected"
    /\ {"id", "score"} \subseteq ErrorFields(result)

\* C4: a QueryRequest input holding only a valid query is accepted with
\* chat_history the empty sequence and session_id null; in every accepted
\* QueryRequest whose input had no chat_history, chat_history is the empty
\* sequence.
C4_QueryDefaults ==
    (Decided /\ schema = "QueryRequest") =>
        /\ (DOMAIN raw.d = {"query"} /\ raw.d.query.kind = "str" /\ Len(raw.d.query.s) >= 1) =>
              /\ result.errs = {}
              /\ result.val.d.chat_history = ListV(<<>>)
              /\ result.val.d.session_id = Null
        /\ (result.errs = {} /\ "chat_history" \notin DOMAIN raw.d) =>
              result.val.d.chat_history = ListV(<<>>)

C4_Witness ==
    /\ schema = "QueryRequest"
    /\ raw = DictV([query |-> StrV(s_x)])
    /\ pc = "validated"
    /\ result.val.d.chat_history = ListV(<<>>)

\* the fields whose supplied value, validated on its own, is refused
ViolatingFields ==
    {f.name : f \in {g \in FieldSet(schema) :
                        ValidateField(g, Supplied(raw, g.name), 0).errs # {}}}

\* C5: the fields named by the errors of a rejected input are exactly the
\* fields whose value violates a rule; a QueryRequest with an empty query and
\* a chat_history entry of invalid role gets an error at query and one at the
\* role of that entry.
C5_AllViolationsListed ==
    Decided =>
        /\ ErrorFields(result) = ViolatingFields
        /\ (/\ schema = "QueryRequest"
            /\ Supplied(raw, "query") = StrV(s_empty)
            /\ Supplied(raw, "chat_history") = ListV(<<Msg(s_moderator, s_hi)>>)) =>
               {<<"query">>, <<"chat_history", "0", "role">>} \subseteq ErrorPaths(result)

C5_Witness ==
    /\ schema = "QueryRequest"
    /\ Supplied(raw, "query") = StrV(s_empty)
    /\ Supplied(raw, "chat_history") = ListV(<<Msg(s_moderator, s_hi)>>)
    /\ pc = "rejected"
    /\ ErrorFields(result) = {"query", "chat_history"}

NumericFields(name) == {f \in FieldSet(name) : f.type \in {"int", "float", "bool"}}

\* C6: no input that supplies a string for a field declared int, float or
\* bool is accepted: an error is located at that field.
C6_NoCoercionFromString ==
    Decided =>
        \A f \in NumericFields(schema) :
            Supplied(raw, f.name).kind = "str" => f.name \in ErrorFields(result)

\* C7: every accepted TokenUsage has total_tokens equal to prompt_tokens plus
\* completion_tokens.
C7_TokenTotal ==
    (Accepted /\ schema = "TokenUsage") =>
        result.val.d.total_tokens.n =
            result.val.d.prompt_tokens.n + result.val.d.completion_tokens.n

\* C8: once a record is constructed, no later operation changes any of its
\* fields.
C8_RecordsImmutable ==
    [][\A o \in DOMAIN heap : heap'[o] = heap[o]]_vars

\* C9: a write made through the metadata of the RerankedChunk leaves the
\* metadata of the RetrievedChunk it was constructed from as it was.
C9_MetadataNotAliased ==
    [][(rerankedRef # 0 /\ writes' # writes /\ lastWrite' = "reranked.metadata")
          => Target(heap', "retrieved.metadata") = Target(heap, "retrieved.metadata")]_vars

\* C10: validating the serialized form of an accepted record succeeds and
\* gives the same record, field for field, defaulted fields and the order of
\* sequence elements included.
C10_RoundTrip ==
    pc = "done" => (revalidated.errs = {} /\ revalidated.val = result.val)

C10_Witness ==
    /\ schema = "ChunkMetadata"
    /\ "created_at" \notin DOMAIN raw.d
    /\ Supplied(raw, "links") = Links_ba
    /\ pc = "done"
    /\ clock = MaxClock
    /\ revalidated.val.d.created_at = StrV(IsoFormat(0))
    /\ revalidated.val.d.links = Links_ba

====
